---- MODULE Spec2Model ----
(***************************************************************************)
(* Model of the timetable generation engine of backend/server.py:          *)
(* class TimetableGenerator (__init__, generate, _build_conflict_graph)    *)
(* and the POST /timetable/generate handler generate_timetable.            *)
(*                                                                         *)
(* A Python dict is modelled as the sequence of its items in insertion     *)
(* order (keys pairwise distinct); a defaultdict(set) as a function from   *)
(* every possible key to a set, the empty set standing for an absent key.  *)
(* Records carry the fields the algorithm reads or copies; display-only    *)
(* fields (names, codes, capacities, labels) are left out.                 *)
(***************************************************************************)
EXTENDS Integers, Sequences, FiniteSets, TLC

\* ------------------------------------------------------------------ bounds
MaxSubjects == 2
MaxSessions == 3
MaxRooms == 2
MaxTimeslots == 2
MaxTeachers == 2
MaxRuns == 2
\* The records of a subject list in which ids recur between other ids.
MaxRecords == 3
\* The requests to the other endpoints served beside the generate requests.
MaxEdits == 1
\* generate_default_timeslots: len(days) and len(time_slots).
DefaultDays == 5
DefaultPeriods == 6

\* ------------------------------------------------------------- identifiers
SubjectIds == {"s1", "s2"}
TeacherIds == {"t1", "t2"}
\* The teachers on file, in stored order; "t3" teaches chain subjects only.
TeachersOnFile == <<"t1", "t2", "t3">>
ClassGroups == {"g1", "g2"}
\* The rooms and the timeslots on file, in stored order.
RoomsOnFile == <<"r1", "r2", "r3">>
TimeslotsOnFile ==
    <<"ts1", "ts2", "ts3", "ts4", "ts5", "ts6", "ts7", "ts8", "ts9",
    "ts10", "ts11", "ts12", "ts13", "ts14", "ts15", "ts16", "ts17",
    "ts18", "ts19", "ts20", "ts21", "ts22", "ts23", "ts24", "ts25",
    "ts26", "ts27", "ts28", "ts29", "ts30", "ts31", "ts32", "ts33",
    "ts34", "ts35", "ts36">>
\* The ids uuid4 gives to the subjects created by POST /subjects.
NewSubjectIds == <<"s3", "s4">>

VARIABLES
    teachers, subjects, rooms, timeslots,
    self_subjects, self_rooms, self_timeslots, schedule,
    requirements, conflicts, priority_queue,
    teacher_schedule, room_schedule, class_schedule,
    idx, ti, ri, assigned, pc,
    calls, results,
    cur, saved, fetched, crud, issued,
    hpc, timetable, response, hk, next_id

inputVars == <<teachers, subjects, rooms, timeslots>>
selfVars == <<self_subjects, self_rooms, self_timeslots, schedule>>
calendarVars == <<teacher_schedule, room_schedule, class_schedule>>
localVars == <<requirements, conflicts, priority_queue, calendarVars, idx, ti, ri, assigned>>
handlerVars == <<hpc, timetable, response, hk, next_id>>
requestVars == <<cur, saved, fetched, crud, issued>>
vars == <<inputVars, selfVars, localVars, pc, calls, results, handlerVars, requestVars>>

\* ---------------------------------------------------------------- helpers
SeqsUpTo(S, n) == UNION {[1..k -> S] : k \in 0..n}

Range(s) == {s[i] : i \in DOMAIN s}

RoomIds == Range(RoomsOnFile)
TimeslotIds == Range(TimeslotsOnFile)

Min(a, b) == IF a <= b THEN a ELSE b

\* Subject records as stored by the CRUD layer (class Subject).
SubjectRecords ==
    [id : SubjectIds, teacher_id : TeacherIds, class_group : ClassGroups,
     sessions_per_week : 0..MaxSessions]

\* A key already present taken out and put again at the end, so that the
\* keys come in the order of their last records.
DictPutLast(d, rec) == Append(SelectSeq(d, LAMBDA x : x.id # rec.id), rec)

\* {x['id']: x for x in xs}: one more item put into a dict.  A key already
\* present keeps its position and takes the new value.
DictPut(d, rec) ==
    IF \E i \in DOMAIN d : d[i].id = rec.id
    THEN [i \in DOMAIN d |-> IF d[i].id = rec.id THEN rec ELSE d[i]]
    ELSE Append(d, rec)

RECURSIVE DictPutAll(_, _)
DictPutAll(d, xs) ==
    IF xs = <<>> THEN d ELSE DictPutAll(DictPut(d, Head(xs)), Tail(xs))

\* The dict comprehension of __init__.
DictFromList(xs) == DictPutAll(<<>>, xs)

\* The schedule list shared between generator objects (as a class attribute
\* or a mutable default argument would be) instead of created per object.
SharedSchedule == schedule

\* self.schedule = [] in __init__.
NewSchedule == <<>>

\* The keys a calendar may be asked for: the teacher_id and class_group
\* values that occur in subjects.
TeacherKeys == Range(TeachersOnFile)
ClassGroupKeys == ClassGroups \cup {"g3", "g4"}

\* defaultdict(set)
EmptyCalendar(keys) == [k \in keys |-> {}]

\* ------------------------------------------------- generate(): pure steps
\* The session loop running one session too many.
RECURSIVE SubjectRequirementsLong(_, _)
SubjectRequirementsLong(subject, k) ==
    IF k > subject.sessions_per_week + 1 THEN <<>>
    ELSE <<[subject_id |-> subject.id, teacher_id |-> subject.teacher_id,
            class_group |-> subject.class_group, session_num |-> k]>>
         \o SubjectRequirementsLong(subject, k + 1)

\* The session loop stopping one session early.
RECURSIVE SubjectRequirementsShort(_, _)
SubjectRequirementsShort(subject, k) ==
    IF k >= subject.sessions_per_week THEN <<>>
    ELSE <<[subject_id |-> subject.id, teacher_id |-> subject.teacher_id,
            class_group |-> subject.class_group, session_num |-> k]>>
         \o SubjectRequirementsShort(subject, k + 1)

\* The requirements one subject contributes: range(sessions_per_week),
\* session_num = 1, 2, ...  The subject_name field, which nothing reads, is
\* left out, with the display fields of the records.
RECURSIVE SubjectRequirements(_, _)
SubjectRequirements(subject, k) ==
    IF k > subject.sessions_per_week THEN <<>>
    ELSE <<[subject_id |-> subject.id, teacher_id |-> subject.teacher_id,
            class_group |-> subject.class_group, session_num |-> k]>>
         \o SubjectRequirements(subject, k + 1)

\* Step 1 of generate: the loop over self.subjects.items().
RECURSIVE ExpandRequirements(_)
ExpandRequirements(subs) ==
    IF subs = <<>> THEN <<>>
    ELSE SubjectRequirements(Head(subs), 1) \o ExpandRequirements(Tail(subs))

\* The test with `and` in the place of `or`.
ConflictingBoth(r1, r2) ==
    r1.teacher_id = r2.teacher_id /\ r1.class_group = r2.class_group

\* The test of _build_conflict_graph on one pair.
Conflicting(r1, r2) ==
    r1.teacher_id = r2.teacher_id \/ r1.class_group = r2.class_group

\* The two nested loops of _build_conflict_graph, resumed at pair (i, j);
\* c maps a requirement index to its list of conflicting indices.
RECURSIVE ConflictLoop(_, _, _, _)
ConflictLoop(reqs, c, i, j) ==
    IF i > Len(reqs) THEN c
    ELSE IF j > Len(reqs) THEN ConflictLoop(reqs, c, i + 1, i + 2)
    ELSE ConflictLoop(reqs,
                      IF Conflicting(reqs[i], reqs[j])
                      THEN [c EXCEPT ![i] = Append(@, j), ![j] = Append(@, i)]
                      ELSE c,
                      i, j + 1)

BuildConflictGraph(reqs) ==
    ConflictLoop(reqs, [i \in DOMAIN reqs |-> <<>>], 1, 2)

\* degree = len(conflicts.get(i, []))
Degree(c, i) == Len(c[i])

\* The order with the first component compared the other way round.
ItemLessAscending(a, b) == a[1] > b[1] \/ (a[1] = b[1] /\ a[2] < b[2])

\* Python's tuple order on the heap items (-degree, i, req); i is unique in
\* the heap, so the comparison never reaches req.
ItemLess(a, b) == a[1] < b[1] \/ (a[1] = b[1] /\ a[2] < b[2])

\* heapq.heappush; the heap is modelled by the set of its items.
HeapPush(h, item) == h \cup {item}

\* The item heapq.heappop returns: the smallest one.
HeapMin(h) == CHOOSE a \in h : \A b \in h : a = b \/ ItemLess(a, b)

\* Step 3 of generate: push (-degree, i, req) for each requirement in turn.
RECURSIVE PushAll(_, _, _, _)
PushAll(h, reqs, c, i) ==
    IF i > Len(reqs) THEN h
    ELSE PushAll(HeapPush(h, <<0 - Degree(c, i), i, reqs[i]>>), reqs, c, i + 1)

\* The three checks made on a candidate (timeslot, room) for requirement req.
TeacherBusy(req, slot_key) == slot_key \in teacher_schedule[req.teacher_id]
RoomBusy(room_id, slot_key) == slot_key \in room_schedule[room_id]
ClassBusy(req, slot_key) == slot_key \in class_schedule[req.class_group]

\* CandidateFree with only the teacher check made.
CandidateFreeTeacherOnly(req, room_id, slot_key) == ~TeacherBusy(req, slot_key)

\* CandidateFree with the class-group check forgotten.
CandidateFreeNoClassCheck(req, room_id, slot_key) ==
    /\ ~TeacherBusy(req, slot_key)
    /\ ~RoomBusy(room_id, slot_key)

CandidateFree(req, room_id, slot_key) ==
    /\ ~TeacherBusy(req, slot_key)
    /\ ~RoomBusy(room_id, slot_key)
    /\ ~ClassBusy(req, slot_key)

\* The timeslot assigned to the resource's entry instead of added to it.
OccupyReplacing(calendar, key, slot_key) == [calendar EXCEPT ![key] = {slot_key}]

\* calendar[key].add(slot_key)
Occupy(calendar, key, slot_key) == [calendar EXCEPT ![key] = @ \cup {slot_key}]

\* The entry appended to self.schedule.
Assignment(req, room_id, slot_key) ==
    [subject_id |-> req.subject_id, teacher_id |-> req.teacher_id,
     room_id |-> room_id, timeslot_id |-> slot_key,
     class_group |-> req.class_group]

\* ------------------------------------------------------------ input space
TeacherRecords == [id : Range(TeachersOnFile)]
RoomRecords == [id : RoomIds]
TimeslotRecords == [id : TimeslotIds]

\* A timetable entry stored by an earlier request.
OldEntry ==
    [subject_id |-> "s1", teacher_id |-> "t1", room_id |-> "r1",
     timeslot_id |-> "ts1", class_group |-> "g1", id |-> 0]

NoResponse == [status |-> 0, detail |-> "", entries |-> 0]

\* The handler's locals teachers, subjects, rooms and timeslots before the
\* finds have assigned them.
NothingFetched == [teachers |-> <<>>, subjects |-> <<>>, rooms |-> <<>>, timeslots |-> <<>>]

\* The requests the server may be serving at once.  The event loop runs one
\* handler coroutine at a time: hpc, schedule, hk and response are those of
\* request cur, and saved holds them for the requests suspended at an await.
Requests == {1, 2}

\* The saved slot of the running request, and of a request never sent.
Parked == [hpc |-> "parked", schedule |-> <<>>, hk |-> 0, response |-> NoResponse,
           fetched |-> NothingFetched]
NotSent == [hpc |-> "none", schedule |-> <<>>, hk |-> 0, response |-> NoResponse,
            fetched |-> NothingFetched]

\* A request that has arrived and not yet run.
Arrived == [hpc |-> "clear", schedule |-> <<>>, hk |-> 0, response |-> NoResponse,
            fetched |-> NothingFetched]

\* No request to another endpoint has been served; the ids of the lists on
\* file that the stored teachers, rooms and timeslots have are issued.
InitCrud ==
    /\ crud = [served |-> 0, left |-> 0, status |-> 0]
    /\ issued = [teachers |-> Len(teachers), subjects |-> 0, rooms |-> Len(rooms),
                 timeslots |-> Len(timeslots)]

\* Request 1 is served alone.
InitAlone ==
    /\ cur = 1
    /\ saved = [r \in Requests |-> IF r = 1 THEN Parked ELSE NotSent]
    /\ fetched = NothingFetched
    /\ InitCrud

\* State shared by both ways of using the engine: no generator object yet.
InitEngine ==
    /\ self_subjects = <<>>
    /\ self_rooms = <<>>
    /\ self_timeslots = <<>>
    /\ schedule = <<>>
    /\ requirements = <<>>
    /\ conflicts = <<>>
    /\ priority_queue = {}
    /\ teacher_schedule = EmptyCalendar(TeacherKeys)
    /\ room_schedule = EmptyCalendar(RoomIds)
    /\ class_schedule = EmptyCalendar(ClassGroupKeys)
    /\ idx = 0
    /\ ti = 0
    /\ ri = 0
    /\ assigned = FALSE
    /\ pc = "idle"
    /\ calls = 0
    /\ results = <<>>
    /\ response = NoResponse
    /\ hk = 0
    /\ next_id = 1

\* The sum of sessions_per_week over the subjects supplied.
RECURSIVE TotalSessions(_)
TotalSessions(subs) ==
    IF subs = <<>> THEN 0
    ELSE Head(subs).sessions_per_week + TotalSessions(Tail(subs))

\* The records of the first n ids of a stored collection.
FirstOnFile(ids, n) == [i \in 1..Min(n, Len(ids)) |-> [id |-> ids[i]]]

\* Ids are opaque keys that the code only compares for equality, so the
\* lists are enumerated up to a renaming of ids: a non-empty subject list
\* starts with the first id of each kind.  Teachers, rooms and timeslots get
\* their ids from uuid4 when stored and are pairwise distinct; a subject
\* list may repeat an id.  MaxSessions bounds the sessions asked for by all
\* subjects together.
StartsWith(xs, firsts) == IF xs = <<>> THEN TRUE ELSE xs[1] \in firsts

\* The ids of list xs are pairwise distinct.
DistinctIds(xs) == \A i, j \in DOMAIN xs : i # j => xs[i].id # xs[j].id

InitInputs ==
    /\ subjects \in SeqsUpTo(SubjectRecords, MaxSubjects)
    /\ StartsWith(subjects, {s \in SubjectRecords :
                                s.id = "s1" /\ s.teacher_id = "t1" /\ s.class_group = "g1"})
    /\ TotalSessions(subjects) <= MaxSessions
    /\ rooms \in {FirstOnFile(RoomsOnFile, n) : n \in 0..MaxRooms}
    /\ timeslots \in {FirstOnFile(TimeslotsOnFile, n) : n \in 0..MaxTimeslots}

\* The stored collections when a POST /timetable/generate request arrives,
\* possibly with a timetable stored by an earlier request.
Init ==
    /\ InitInputs
    /\ teachers \in {FirstOnFile(TeachersOnFile, n) : n \in 0..MaxTeachers}
    /\ InitEngine
    /\ hpc = "clear"
    /\ timetable \in {<<>>, <<OldEntry>>}
    /\ InitAlone

\* The class used directly by a caller, without the HTTP handler.  The
\* teachers argument is only stored in self.teachers, which is never read:
\* the caller passes the teachers on file.
InitDirect ==
    /\ InitInputs
    /\ teachers = FirstOnFile(TeachersOnFile, MaxTeachers)
    /\ InitEngine
    /\ hpc = "direct"
    /\ timetable = <<>>
    /\ InitAlone

\* The class used directly on subject lists of up to MaxRecords records, in
\* which an id may occur before and after another id; one room and one
\* timeslot are on file.
InitExpand ==
    /\ subjects \in SeqsUpTo(SubjectRecords, MaxRecords)
    /\ StartsWith(subjects, {s \in SubjectRecords :
                                s.id = "s1" /\ s.teacher_id = "t1" /\ s.class_group = "g1"})
    /\ TotalSessions(subjects) <= MaxSessions
    /\ rooms = FirstOnFile(RoomsOnFile, 1)
    /\ timeslots = FirstOnFile(TimeslotsOnFile, 1)
    /\ teachers = FirstOnFile(TeachersOnFile, MaxTeachers)
    /\ InitEngine
    /\ hpc = "direct"
    /\ timetable = <<>>
    /\ InitAlone

\* Six single-session subjects of three teachers and four class-groups in
\* which each subject shares its teacher or its class-group with the next:
\* s1 -t1- s2 -g2- s3 -t2- s4 -g3- s5 -t3- s6.
ChainSubjects ==
    << [id |-> "s1", teacher_id |-> "t1", class_group |-> "g1", sessions_per_week |-> 1],
       [id |-> "s2", teacher_id |-> "t1", class_group |-> "g2", sessions_per_week |-> 1],
       [id |-> "s3", teacher_id |-> "t2", class_group |-> "g2", sessions_per_week |-> 1],
       [id |-> "s4", teacher_id |-> "t2", class_group |-> "g3", sessions_per_week |-> 1],
       [id |-> "s5", teacher_id |-> "t3", class_group |-> "g3", sessions_per_week |-> 1],
       [id |-> "s6", teacher_id |-> "t3", class_group |-> "g4", sessions_per_week |-> 1] >>

\* Direct use of the class on the chain subjects, supplied in any order,
\* with three teachers, three rooms and two timeslots.
InitChain ==
    /\ subjects \in {[i \in DOMAIN ChainSubjects |-> ChainSubjects[p[i]]] :
                        p \in Permutations(DOMAIN ChainSubjects)}
    /\ teachers = FirstOnFile(TeachersOnFile, 3)
    /\ rooms = FirstOnFile(RoomsOnFile, 3)
    /\ timeslots = FirstOnFile(TimeslotsOnFile, 2)
    /\ InitEngine
    /\ hpc = "direct"
    /\ timetable = <<>>
    /\ InitAlone

\* ------------------------------------------------------ TimetableGenerator
\* __init__: the assignments to self.subjects, self.rooms, self.timeslots
\* and self.schedule (self.teachers and self.class_groups are never read).
Init__(subs, rms, tss) ==
    /\ self_subjects' = DictFromList(subs)
    /\ self_rooms' = DictFromList(rms)
    /\ self_timeslots' = tss
    /\ schedule' = NewSchedule
    /\ calls' = 0
    /\ pc' = "ready"

\* A direct caller builds a generator: the first one, or a fresh one from
\* the same inputs after an earlier run has returned.
Construct ==
    /\ hpc = "direct"
    /\ pc = "idle" \/ (pc = "returned" /\ Len(results) < MaxRuns)
    /\ Init__(subjects, rooms, timeslots)
    /\ UNCHANGED <<inputVars, requestVars, localVars, results, handlerVars>>

\* A direct caller invokes generate() again on the same generator object.
Reinvoke ==
    /\ hpc = "direct"
    /\ pc = "returned"
    /\ Len(results) < MaxRuns
    /\ pc' = "ready"
    /\ UNCHANGED <<inputVars, requestVars, selfVars, localVars, calls, results, handlerVars>>

\* What generate() hands back, as the caller sees it on return, in the n-th
\* invocation on this generator object.
Returned(ret, n) == Append(results, [fresh |-> n = 1, ret |-> ret])

\* The number of unplaced requirements a caller is told of: generate()
\* returns self.schedule alone (or []), and the handler answers with the
\* number of entries only, so no unplaced requirement is ever reported.
ReportedUnplaced(ret) == 0

\* generate(), step 1: expand the requirements; return [] if there are none.
Expand ==
    /\ pc = "ready"
    /\ calls' = calls + 1
    /\ requirements' = ExpandRequirements(self_subjects)
    /\ IF requirements' = <<>>
       THEN /\ pc' = "returned"
            /\ results' = Returned(<<>>, calls + 1)
       ELSE /\ pc' = "graph"
            /\ UNCHANGED results
    /\ UNCHANGED <<inputVars, requestVars, selfVars, conflicts, priority_queue, calendarVars,
                   idx, ti, ri, assigned, handlerVars>>

\* generate(), step 2.
BuildGraph ==
    /\ pc = "graph"
    /\ conflicts' = BuildConflictGraph(requirements)
    /\ pc' = "queue"
    /\ UNCHANGED <<inputVars, requestVars, selfVars, requirements, priority_queue, calendarVars,
                   idx, ti, ri, assigned, calls, results, handlerVars>>

\* generate(), step 3 and the creation of the three calendars of step 4.
BuildQueue ==
    /\ pc = "queue"
    /\ priority_queue' = PushAll({}, requirements, conflicts, 1)
    /\ teacher_schedule' = EmptyCalendar(TeacherKeys)
    /\ room_schedule' = EmptyCalendar(RoomIds)
    /\ class_schedule' = EmptyCalendar(ClassGroupKeys)
    /\ pc' = "pop"
    /\ UNCHANGED <<inputVars, requestVars, selfVars, requirements, conflicts,
                   idx, ti, ri, assigned, calls, results, handlerVars>>

\* while priority_queue: heappop, then enter the two for loops.
Pop ==
    /\ pc = "pop"
    /\ priority_queue # {}
    /\ idx' = HeapMin(priority_queue)[2]
    /\ priority_queue' = priority_queue \ {HeapMin(priority_queue)}
    /\ assigned' = FALSE
    /\ ti' = 1
    /\ ri' = 1
    /\ pc' = "scan"
    /\ UNCHANGED <<inputVars, requestVars, selfVars, requirements, conflicts, calendarVars,
                   calls, results, handlerVars>>

\* The candidate the two for loops are at.
Req == requirements[idx]
SlotKey == self_timeslots[ti].id
RoomId == self_rooms[ri].id
AtCandidate == pc = "scan" /\ ti <= Len(self_timeslots) /\ ri <= Len(self_rooms)

\* Reject leaving the room loop: the other rooms of the timeslot are skipped.
RejectBreaking ==
    /\ AtCandidate
    /\ ~CandidateFree(Req, RoomId, SlotKey)
    /\ ri' = Len(self_rooms) + 1
    /\ UNCHANGED <<inputVars, requestVars, selfVars, requirements, conflicts, priority_queue,
                   calendarVars, idx, ti, assigned, pc, calls, results, handlerVars>>

\* Reject with the teacher's calendar written as soon as the teacher check
\* passes, before the room and class-group checks are made.
RejectAfterTeacherCommit ==
    /\ AtCandidate
    /\ ~CandidateFree(Req, RoomId, SlotKey)
    /\ ri' = ri + 1
    /\ teacher_schedule' = IF TeacherBusy(Req, SlotKey) THEN teacher_schedule
                           ELSE Occupy(teacher_schedule, Req.teacher_id, SlotKey)
    /\ UNCHANGED <<inputVars, requestVars, selfVars, requirements, conflicts, priority_queue,
                   room_schedule, class_schedule, idx, ti, assigned, pc, calls, results,
                   handlerVars>>

\* One of the three checks fails: continue with the next room.
Reject ==
    /\ AtCandidate
    /\ ~CandidateFree(Req, RoomId, SlotKey)
    /\ ri' = ri + 1
    /\ UNCHANGED <<inputVars, requestVars, selfVars, requirements, conflicts, priority_queue,
                   calendarVars, idx, ti, assigned, pc, calls, results, handlerVars>>

\* All three checks pass: occupy the calendars, append the assignment and
\* break out of both loops.
Commit ==
    /\ AtCandidate
    /\ CandidateFree(Req, RoomId, SlotKey)
    /\ teacher_schedule' = Occupy(teacher_schedule, Req.teacher_id, SlotKey)
    /\ room_schedule' = Occupy(room_schedule, RoomId, SlotKey)
    /\ class_schedule' = Occupy(class_schedule, Req.class_group, SlotKey)
    /\ schedule' = Append(schedule, Assignment(Req, RoomId, SlotKey))
    /\ assigned' = TRUE
    /\ pc' = "pop"
    /\ UNCHANGED <<inputVars, requestVars, self_subjects, self_rooms, self_timeslots,
                   requirements, conflicts, priority_queue, idx, ti, ri,
                   calls, results, handlerVars>>

\* The room loop is exhausted for this timeslot: next timeslot.
NextTimeslot ==
    /\ pc = "scan"
    /\ ti <= Len(self_timeslots)
    /\ ri > Len(self_rooms)
    /\ ti' = ti + 1
    /\ ri' = 1
    /\ UNCHANGED <<inputVars, requestVars, selfVars, requirements, conflicts, priority_queue,
                   calendarVars, idx, assigned, pc, calls, results, handlerVars>>

\* Unplaced giving the run up: the requirements still queued are dropped.
UnplacedAborting ==
    /\ pc = "scan"
    /\ ti > Len(self_timeslots)
    /\ pc' = "pop"
    /\ priority_queue' = {}
    /\ UNCHANGED <<inputVars, requestVars, selfVars, requirements, conflicts,
                   calendarVars, idx, ti, ri, assigned, calls, results, handlerVars>>

\* Unplaced undoing the assignment emitted last, as a backtracking search
\* would to make room.
UnplacedBacktracking ==
    /\ pc = "scan"
    /\ ti > Len(self_timeslots)
    /\ pc' = "pop"
    /\ schedule' = SubSeq(schedule, 1, Len(schedule) - 1)
    /\ UNCHANGED <<inputVars, requestVars, self_subjects, self_rooms, self_timeslots,
                   requirements, conflicts, priority_queue,
                   calendarVars, idx, ti, ri, assigned, calls, results, handlerVars>>

\* The timeslot loop is exhausted: the requirement stays unplaced and the
\* while loop goes on.
Unplaced ==
    /\ pc = "scan"
    /\ ti > Len(self_timeslots)
    /\ pc' = "pop"
    /\ UNCHANGED <<inputVars, requestVars, selfVars, requirements, conflicts, priority_queue,
                   calendarVars, idx, ti, ri, assigned, calls, results, handlerVars>>

\* The queue is empty: return self.schedule.
Return ==
    /\ pc = "pop"
    /\ priority_queue = {}
    /\ pc' = "returned"
    /\ results' = Returned(schedule, calls)
    /\ UNCHANGED <<inputVars, requestVars, selfVars, localVars, calls, handlerVars>>

Generate ==
    \/ Expand
    \/ BuildGraph
    \/ BuildQueue
    \/ Pop
    \/ Reject
    \/ Commit
    \/ NextTimeslot
    \/ Unplaced
    \/ Return

\* ------------------------------------------- POST /timetable/generate
BadRequest(detail) == [status |-> 400, detail |-> detail, entries |-> 0]

\* HClear with the delete forgotten: the stored timetable is kept.
HClearKeeping ==
    /\ hpc = "clear"
    /\ hpc' = "find_teachers"
    /\ UNCHANGED <<inputVars, requestVars, selfVars, localVars, pc, calls, results,
                   timetable, response, hk, next_id>>

\* await db.timetable.delete_many({})
HClear ==
    /\ hpc = "clear"
    /\ timetable' = <<>>
    /\ hpc' = "find_teachers"
    /\ UNCHANGED <<inputVars, requestVars, selfVars, localVars, pc, calls, results,
                   response, hk, next_id>>

\* The check with the test on rooms forgotten.
AnyEmptyButRooms(ts, ss, rs, tss) == ts = <<>> \/ ss = <<>> \/ tss = <<>>

\* The check with the test on subjects forgotten.
AnyEmptyButSubjects(ts, ss, rs, tss) == ts = <<>> \/ rs = <<>> \/ tss = <<>>

\* The check made on the four fetched lists.
AnyEmpty(ts, ss, rs, tss) == ts = <<>> \/ ss = <<>> \/ rs = <<>> \/ tss = <<>>

\* teachers = await db.teachers.find({}, {"_id": 0}).to_list(1000)
HFindTeachers ==
    /\ hpc = "find_teachers"
    /\ fetched' = [fetched EXCEPT !.teachers = teachers]
    /\ hpc' = "find_subjects"
    /\ UNCHANGED <<inputVars, cur, saved, crud, issued, selfVars, localVars, pc, calls,
                   results, timetable, response, hk, next_id>>

\* subjects = await db.subjects.find({}, {"_id": 0}).to_list(1000)
HFindSubjects ==
    /\ hpc = "find_subjects"
    /\ fetched' = [fetched EXCEPT !.subjects = subjects]
    /\ hpc' = "find_rooms"
    /\ UNCHANGED <<inputVars, cur, saved, crud, issued, selfVars, localVars, pc, calls,
                   results, timetable, response, hk, next_id>>

\* rooms = await db.rooms.find({}, {"_id": 0}).to_list(1000)
HFindRooms ==
    /\ hpc = "find_rooms"
    /\ fetched' = [fetched EXCEPT !.rooms = rooms]
    /\ hpc' = "find_timeslots"
    /\ UNCHANGED <<inputVars, cur, saved, crud, issued, selfVars, localVars, pc, calls,
                   results, timetable, response, hk, next_id>>

\* timeslots = await db.timeslots.find({}, {"_id": 0}).to_list(1000)
HFindTimeslots ==
    /\ hpc = "find_timeslots"
    /\ fetched' = [fetched EXCEPT !.timeslots = timeslots]
    /\ hpc' = "check"
    /\ UNCHANGED <<inputVars, cur, saved, crud, issued, selfVars, localVars, pc, calls,
                   results, timetable, response, hk, next_id>>

\* One of the four fetched lists is empty: HTTP 400.
HReject ==
    /\ hpc = "check"
    /\ AnyEmpty(fetched.teachers, fetched.subjects, fetched.rooms, fetched.timeslots)
    /\ response' = BadRequest("Please add teachers, subjects, rooms, and timeslots first")
    /\ hpc' = "done"
    /\ UNCHANGED <<inputVars, requestVars, selfVars, localVars, pc, calls, results,
                   timetable, hk, next_id>>

\* None of the fetched lists is empty: build the generator from them and
\* call generate().
HGenerate ==
    /\ hpc = "check"
    /\ ~AnyEmpty(fetched.teachers, fetched.subjects, fetched.rooms, fetched.timeslots)
    /\ Init__(fetched.subjects, fetched.rooms, fetched.timeslots)
    /\ hpc' = "generate"
    /\ UNCHANGED <<inputVars, requestVars, localVars, results, timetable, response, hk, next_id>>

\* generate() returned an empty schedule: HTTP 400.
HEmpty ==
    /\ hpc = "generate"
    /\ pc = "returned"
    /\ results[Len(results)].ret = <<>>
    /\ response' = BadRequest("Could not generate timetable. Please ensure you have subjects configured.")
    /\ hpc' = "done"
    /\ UNCHANGED <<inputVars, requestVars, selfVars, localVars, pc, calls, results,
                   timetable, hk, next_id>>

\* entry['id'] = str(uuid.uuid4())
WithId(entry, id) ==
    [subject_id |-> entry.subject_id, teacher_id |-> entry.teacher_id,
     room_id |-> entry.room_id, timeslot_id |-> entry.timeslot_id,
     class_group |-> entry.class_group, id |-> id]

\* generate() returned a non-empty schedule: the storing loop takes the first
\* entry and gives it its id, and the handler is suspended at the await of
\* insert_one, the entry not yet stored.
HStore ==
    /\ hpc = "generate"
    /\ pc = "returned"
    /\ results[Len(results)].ret # <<>>
    /\ hk' = 1
    /\ schedule' = [schedule EXCEPT ![1] = WithId(@, next_id)]
    /\ next_id' = next_id + 1
    /\ hpc' = "store"
    /\ UNCHANGED <<inputVars, requestVars, self_subjects, self_rooms, self_timeslots, localVars,
                   pc, calls, results, timetable, response>>

\* HInsert giving the next entry the id of the entry just stored.
HInsertReusingId ==
    /\ hpc = "store"
    /\ hk <= Len(schedule)
    /\ timetable' = Append(timetable, schedule[hk])
    /\ hk' = hk + 1
    /\ IF hk < Len(schedule)
       THEN schedule' = [schedule EXCEPT ![hk + 1] = WithId(@, schedule[hk].id)]
       ELSE UNCHANGED schedule
    /\ UNCHANGED <<inputVars, requestVars, self_subjects, self_rooms, self_timeslots, localVars,
                   pc, calls, results, hpc, response, next_id>>

\* The handler is resumed in the await of insert_one: the entry, which has
\* its id, is stored; the loop then gives the next entry its id and the
\* handler is suspended at the next insert_one, or the loop is over.
HInsert ==
    /\ hpc = "store"
    /\ hk <= Len(schedule)
    /\ timetable' = Append(timetable, schedule[hk])
    /\ hk' = hk + 1
    /\ IF hk < Len(schedule)
       THEN /\ schedule' = [schedule EXCEPT ![hk + 1] = WithId(@, next_id)]
            /\ next_id' = next_id + 1
       ELSE UNCHANGED <<schedule, next_id>>
    /\ UNCHANGED <<inputVars, requestVars, self_subjects, self_rooms, self_timeslots, localVars,
                   pc, calls, results, hpc, response>>

\* Every entry is stored: answer with the number of entries.
HRespond ==
    /\ hpc = "store"
    /\ hk > Len(schedule)
    /\ response' = [status |-> 200, detail |-> "Timetable generated successfully",
                    entries |-> Len(schedule)]
    /\ hpc' = "done"
    /\ UNCHANGED <<inputVars, requestVars, selfVars, localVars, pc, calls, results,
                   timetable, hk, next_id>>

\* The running handler is suspended at an await, its database operation not
\* yet made (delete_many, one of the four finds, an insert_one), or has
\* answered: the event loop may run something else.  After the last
\* insert_one the handler runs on to its return without suspending.
AtAwait ==
    \/ hpc \in {"clear", "find_teachers", "find_subjects", "find_rooms",
                 "find_timeslots", "done"}
    \/ hpc = "store" /\ hk <= Len(schedule)

\* The event loop resumes request r instead.
Switch(r) ==
    /\ AtAwait
    /\ r # cur
    /\ saved[r].hpc \notin {"none", "parked", "done"}
    /\ saved' = [saved EXCEPT
                    ![cur] = [hpc |-> hpc, schedule |-> schedule, hk |-> hk,
                              response |-> response, fetched |-> fetched],
                    ![r] = Parked]
    /\ cur' = r
    /\ hpc' = saved[r].hpc
    /\ schedule' = saved[r].schedule
    /\ hk' = saved[r].hk
    /\ response' = saved[r].response
    /\ fetched' = saved[r].fetched
    /\ UNCHANGED <<inputVars, self_subjects, self_rooms, self_timeslots, localVars,
                   pc, calls, results, timetable, next_id, crud, issued>>

\* ------------------------------------------------- the other endpoints
\* The collection operations the endpoints make; a filter on id matches the
\* first document that has it.
HasId(xs, id) == \E i \in DOMAIN xs : xs[i].id = id
FirstWithId(xs, id) ==
    CHOOSE i \in DOMAIN xs : xs[i].id = id /\ \A j \in 1..(i - 1) : xs[j].id # id
InsertOne(xs, doc) == Append(xs, doc)
ReplaceOne(xs, id, doc) ==
    IF HasId(xs, id) THEN [xs EXCEPT ![FirstWithId(xs, id)] = doc] ELSE xs
DeleteOne(xs, id) ==
    IF HasId(xs, id)
    THEN SubSeq(xs, 1, FirstWithId(xs, id) - 1) \o SubSeq(xs, FirstWithId(xs, id) + 1, Len(xs))
    ELSE xs

\* The event loop may start serving a request to another endpoint: no
\* handler is in the middle of its synchronous code.
CanServe == AtAwait /\ crud.served < MaxEdits /\ crud.left = 0

\* The request is answered with the status given.
Served(status) == crud' = [served |-> crud.served + 1, left |-> 0, status |-> status]

\* Ok, or 404 when the filter matched no document.
FoundStatus(xs, id) == IF HasId(xs, id) THEN 200 ELSE 404

\* The fields of a SubjectCreate body that the generator reads.
SubjectBodies ==
    [teacher_id : TeacherIds, class_group : ClassGroups, sessions_per_week : 0..MaxSessions]

SubjectDoc(id, body) ==
    [id |-> id, teacher_id |-> body.teacher_id, class_group |-> body.class_group,
     sessions_per_week |-> body.sessions_per_week]

\* What an endpoint that leaves the generate requests alone leaves unchanged.
CrudFrame ==
    UNCHANGED <<cur, saved, fetched, selfVars, localVars, pc, calls, results, handlerVars>>

\* POST /teachers
create_teacher ==
    /\ CanServe
    /\ issued.teachers < Len(TeachersOnFile)
    /\ teachers' = InsertOne(teachers, [id |-> TeachersOnFile[issued.teachers + 1]])
    /\ issued' = [issued EXCEPT !.teachers = @ + 1]
    /\ Served(200)
    /\ UNCHANGED <<subjects, rooms, timeslots>>
    /\ CrudFrame

\* PUT /teachers/{teacher_id}: the fields replaced are not read by the
\* generator, and the id is kept.
update_teacher(teacher_id) ==
    /\ CanServe
    /\ teachers' = ReplaceOne(teachers, teacher_id, [id |-> teacher_id])
    /\ Served(FoundStatus(teachers, teacher_id))
    /\ UNCHANGED <<subjects, rooms, timeslots, issued>>
    /\ CrudFrame

\* DELETE /teachers/{teacher_id}
delete_teacher(teacher_id) ==
    /\ CanServe
    /\ teachers' = DeleteOne(teachers, teacher_id)
    /\ Served(FoundStatus(teachers, teacher_id))
    /\ UNCHANGED <<subjects, rooms, timeslots, issued>>
    /\ CrudFrame

\* POST /subjects
create_subject(body) ==
    /\ CanServe
    /\ issued.subjects < Len(NewSubjectIds)
    /\ subjects' = InsertOne(subjects, SubjectDoc(NewSubjectIds[issued.subjects + 1], body))
    /\ issued' = [issued EXCEPT !.subjects = @ + 1]
    /\ Served(200)
    /\ UNCHANGED <<teachers, rooms, timeslots>>
    /\ CrudFrame

\* PUT /subjects/{subject_id}
update_subject(subject_id, body) ==
    /\ CanServe
    /\ subjects' = ReplaceOne(subjects, subject_id, SubjectDoc(subject_id, body))
    /\ Served(FoundStatus(subjects, subject_id))
    /\ UNCHANGED <<teachers, rooms, timeslots, issued>>
    /\ CrudFrame

\* DELETE /subjects/{subject_id}
delete_subject(subject_id) ==
    /\ CanServe
    /\ subjects' = DeleteOne(subjects, subject_id)
    /\ Served(FoundStatus(subjects, subject_id))
    /\ UNCHANGED <<teachers, rooms, timeslots, issued>>
    /\ CrudFrame

\* POST /rooms
create_room ==
    /\ CanServe
    /\ issued.rooms < Len(RoomsOnFile)
    /\ rooms' = InsertOne(rooms, [id |-> RoomsOnFile[issued.rooms + 1]])
    /\ issued' = [issued EXCEPT !.rooms = @ + 1]
    /\ Served(200)
    /\ UNCHANGED <<teachers, subjects, timeslots>>
    /\ CrudFrame

\* PUT /rooms/{room_id}: as for teachers.
update_room(room_id) ==
    /\ CanServe
    /\ rooms' = ReplaceOne(rooms, room_id, [id |-> room_id])
    /\ Served(FoundStatus(rooms, room_id))
    /\ UNCHANGED <<teachers, subjects, timeslots, issued>>
    /\ CrudFrame

\* DELETE /rooms/{room_id}
delete_room(room_id) ==
    /\ CanServe
    /\ rooms' = DeleteOne(rooms, room_id)
    /\ Served(FoundStatus(rooms, room_id))
    /\ UNCHANGED <<teachers, subjects, timeslots, issued>>
    /\ CrudFrame

\* POST /timeslots.  TimeSlotCreate declares label, so input.model_dump()
\* holds the key 'label' for every body and TimeSlot(**input.model_dump(),
\* label=label) raises TypeError (a keyword given twice) before the await of
\* insert_one: nothing is stored and the request is answered 500, as every
\* exception that is not an HTTPException.
create_timeslot ==
    /\ CanServe
    /\ Served(500)
    /\ UNCHANGED <<teachers, subjects, rooms, timeslots, issued>>
    /\ CrudFrame

\* DELETE /timeslots/{timeslot_id}
delete_timeslot(timeslot_id) ==
    /\ CanServe
    /\ timeslots' = DeleteOne(timeslots, timeslot_id)
    /\ Served(FoundStatus(timeslots, timeslot_id))
    /\ UNCHANGED <<teachers, subjects, rooms, issued>>
    /\ CrudFrame

\* POST /timeslots/generate-default, up to its first insert_one:
\* await db.timeslots.delete_many({}), with every insert still to make.
generate_default_timeslots ==
    /\ CanServe
    /\ issued.timeslots + DefaultDays * DefaultPeriods <= Len(TimeslotsOnFile)
    /\ timeslots' = <<>>
    /\ crud' = [crud EXCEPT !.left = DefaultDays * DefaultPeriods]
    /\ UNCHANGED <<teachers, subjects, rooms, issued>>
    /\ CrudFrame

\* One await db.timeslots.insert_one of generate_default_timeslots; after
\* the last one the request is answered.
default_insert ==
    /\ AtAwait
    /\ crud.left > 0
    /\ timeslots' = InsertOne(timeslots, [id |-> TimeslotsOnFile[issued.timeslots + 1]])
    /\ issued' = [issued EXCEPT !.timeslots = @ + 1]
    /\ crud' = IF crud.left = 1
               THEN [served |-> crud.served + 1, left |-> 0, status |-> 200]
               ELSE [crud EXCEPT !.left = @ - 1]
    /\ UNCHANGED <<teachers, subjects, rooms>>
    /\ CrudFrame

Crud ==
    \/ create_teacher
    \/ \E id \in Range(TeachersOnFile) : update_teacher(id) \/ delete_teacher(id)
    \/ \E body \in SubjectBodies : create_subject(body)
    \/ \E id \in SubjectIds \cup Range(NewSubjectIds) :
          \/ \E body \in SubjectBodies : update_subject(id, body)
          \/ delete_subject(id)
    \/ create_room
    \/ \E id \in Range(RoomsOnFile) : update_room(id) \/ delete_room(id)
    \/ create_timeslot
    \/ \E id \in Range(TimeslotsOnFile) : delete_timeslot(id)
    \/ generate_default_timeslots
    \/ default_insert

Handler ==
    \/ HClear
    \/ HFindTeachers
    \/ HFindSubjects
    \/ HFindRooms
    \/ HFindTimeslots
    \/ HReject
    \/ HGenerate
    \/ HEmpty
    \/ HStore
    \/ HInsert
    \/ HRespond

\* --------------------------------------------------------- specifications
\* One POST /timetable/generate request.
Next == Handler \/ Generate

Spec == Init /\ [][Next]_vars

\* All the generate requests are sent at once, on the same stored
\* collections, and requests to the other endpoints are served beside them.
\* When the requests arrive one teacher, one subject, one room and one
\* timeslot are on file; the other endpoints change that.
InitConcurrent ==
    /\ teachers = FirstOnFile(TeachersOnFile, 1)
    /\ subjects = <<SubjectDoc("s1", [teacher_id |-> "t1", class_group |-> "g1",
                                      sessions_per_week |-> 1])>>
    /\ rooms = FirstOnFile(RoomsOnFile, 1)
    /\ timeslots = FirstOnFile(TimeslotsOnFile, 1)
    /\ InitEngine
    /\ hpc = "clear"
    /\ timetable \in {<<>>, <<OldEntry>>}
    /\ cur = 1
    /\ saved = [r \in Requests |-> IF r = 1 THEN Parked ELSE Arrived]
    /\ fetched = NothingFetched
    /\ InitCrud

NextConcurrent == Handler \/ Generate \/ (\E r \in Requests : Switch(r)) \/ Crud

SpecConcurrent == InitConcurrent /\ [][NextConcurrent]_vars

\* Direct use of the class: generators are built from the same inputs one
\* after the other, and each runs generate() once.
NextDirect == Construct \/ Generate

SpecDirect == InitDirect /\ [][NextDirect]_vars

\* Direct use of the class on the longer subject lists.
SpecExpand == InitExpand /\ [][NextDirect]_vars

\* Direct use of the class on the chain subjects.
SpecChain == InitChain /\ [][NextDirect]_vars

\* Direct use of the class, generate() possibly invoked again on an object.
NextReuse == Construct \/ Reinvoke \/ Generate

SpecReuse == InitDirect /\ [][NextReuse]_vars

\* ------------------------------------------------------------------ claims
\* The assignments of list s that fall on the same timeslot never share a
\* teacher, a room or a class-group.
NoDoubleBooking(s) ==
    \A i, j \in DOMAIN s :
        (i # j /\ s[i].timeslot_id = s[j].timeslot_id) =>
            /\ s[i].teacher_id # s[j].teacher_id
            /\ s[i].room_id # s[j].room_id
            /\ s[i].class_group # s[j].class_group

\* C1: no double-booking.  In every state of a generate() run on a freshly
\* built generator, and in the list the run returns, no two distinct
\* assignments share (teacher_id, timeslot_id), (room_id, timeslot_id) or
\* (class_group, timeslot_id).
C1_NoDoubleBooking ==
    /\ NoDoubleBooking(schedule)
    /\ \A k \in DOMAIN results : NoDoubleBooking(results[k].ret)

\* A finished run in which two assignments share a timeslot (in different
\* rooms) and some requirement was refused every candidate.
C1_Witness ==
    /\ pc = "returned"
    /\ Len(results) = 1
    /\ Len(results[1].ret) < Len(requirements)
    /\ \E i, j \in DOMAIN results[1].ret :
          i # j /\ results[1].ret[i].timeslot_id = results[1].ret[j].timeslot_id

\* C2: count conservation.  Whenever generate() has returned, the number of
\* returned assignments plus the number of unplaced requirements reported to
\* the caller equals the total number of expanded requirements.
C2_CountConservation ==
    \A k \in DOMAIN results :
        Len(results[k].ret) + ReportedUnplaced(results[k].ret) = Len(requirements)

\* C3: determinism.  Runs of generate() on fresh generators built from the
\* same input lists return the same assignments in the same order.
C3_Determinism ==
    \A i, j \in DOMAIN results :
        (results[i].fresh /\ results[j].fresh) => results[i].ret = results[j].ret

\* Two fresh generators have run on the same input, each placing at least
\* two requirements and leaving one unplaced.
C3_Witness ==
    /\ pc = "returned"
    /\ Len(results) = 2
    /\ results[1].fresh
    /\ results[2].fresh
    /\ Len(results[2].ret) >= 2
    /\ Len(results[2].ret) < Len(requirements)

SomeCollectionEmpty ==
    teachers = <<>> \/ subjects = <<>> \/ rooms = <<>> \/ timeslots = <<>>

\* The entries a request of this run has stored.
StoredByRequest == {e \in Range(timetable) : e # OldEntry}

\* C4: degenerate input.  When one of the four stored collections is empty,
\* the request never builds or runs the generator, produces and stores no
\* assignment, and is answered with HTTP 400 "Please add teachers, ...".
C4_DegenerateInput ==
    SomeCollectionEmpty =>
        /\ pc = "idle"
        /\ schedule = <<>>
        /\ results = <<>>
        /\ StoredByRequest = {}
        /\ response.status # 200
        /\ hpc = "done" =>
              response = BadRequest("Please add teachers, subjects, rooms, and timeslots first")

\* A request answered with HTTP 400 whose only empty collection is rooms,
\* while the subjects do have sessions to place.
C4_Witness ==
    /\ hpc = "done"
    /\ rooms = <<>>
    /\ teachers # <<>>
    /\ timeslots # <<>>
    /\ subjects # <<>>
    /\ \E i \in DOMAIN subjects : subjects[i].sessions_per_week > 0
    /\ response.status = 400

\* Calendar c2 holds every (resource, timeslot) pair that calendar c1 holds.
Grows(c1, c2) == \A k \in DOMAIN c1 : c1[k] \subseteq c2[k]

\* C5: monotonic calendars.  Every step of a generate() run after the three
\* calendars are created keeps every timeslot already in teacher_schedule,
\* room_schedule and class_schedule.
C5_MonotonicCalendars ==
    [][pc # "queue" =>
          /\ Grows(teacher_schedule, teacher_schedule')
          /\ Grows(room_schedule, room_schedule')
          /\ Grows(class_schedule, class_schedule')]_vars

\* A finished run that committed two timeslots to one teacher's calendar and
\* refused a candidate in between.
C5_Witness ==
    /\ pc = "returned"
    /\ ri > 1
    /\ \E t \in TeacherIds : Cardinality(teacher_schedule[t]) >= 2

\* The timeslots of the assignments of list s are pairwise distinct.
DistinctSlots(s) == \A i, j \in DOMAIN s : i # j => s[i].timeslot_id # s[j].timeslot_id

\* 1 teacher, 1 room, 2 timeslots, 1 subject with sessions_per_week = 3.
SaturationScenario ==
    /\ Len(teachers) = 1
    /\ Len(rooms) = 1
    /\ Len(timeslots) = 2
    /\ DistinctIds(timeslots)
    /\ Len(subjects) = 1
    /\ subjects[1].sessions_per_week = 3

\* C6: single-subject saturation.  A lone subject with N sessions, at least
\* one room and T distinct timeslots gets min(N, T) assignments in pairwise
\* distinct timeslots; in the scenario with 1 teacher, 1 room, 2 timeslots
\* and N = 3 exactly 2 sessions are placed, one in each timeslot and both in
\* the same room, and exactly 1 requirement is left unplaced.
C6_Saturation ==
    \A k \in DOMAIN results :
        /\ (Len(subjects) = 1 /\ rooms # <<>> /\ DistinctIds(timeslots)) =>
              /\ Len(results[k].ret) = Min(subjects[1].sessions_per_week, Len(timeslots))
              /\ DistinctSlots(results[k].ret)
        /\ SaturationScenario =>
              /\ Len(results[k].ret) = 2
              /\ {results[k].ret[i].timeslot_id : i \in 1..2} = {timeslots[i].id : i \in 1..2}
              /\ results[k].ret[1].room_id = results[k].ret[2].room_id
              /\ Len(requirements) - Len(results[k].ret) = 1

\* The run on the saturation scenario has returned.
C6_Witness ==
    /\ SaturationScenario
    /\ pc = "returned"
    /\ Len(results) >= 1
    /\ Len(results[1].ret) = 2

\* 2 distinct teachers, 1 room, 2 timeslots, one single-session subject per
\* teacher, both for the same class-group.
SharedClassGroupScenario ==
    /\ Len(teachers) = 2
    /\ DistinctIds(teachers)
    /\ Len(rooms) = 1
    /\ Len(timeslots) = 2
    /\ DistinctIds(timeslots)
    /\ Len(subjects) = 2
    /\ DistinctIds(subjects)
    /\ subjects[1].teacher_id # subjects[2].teacher_id
    /\ subjects[1].class_group = subjects[2].class_group
    /\ subjects[1].sessions_per_week = 1
    /\ subjects[2].sessions_per_week = 1

\* C7: shared class-group.  In that scenario generate() places both sessions
\* and gives them different timeslots.
C7_SharedClassGroup ==
    \A k \in DOMAIN results :
        SharedClassGroupScenario =>
            /\ Len(results[k].ret) = 2
            /\ {results[k].ret[i].subject_id : i \in 1..2} = {subjects[i].id : i \in 1..2}
            /\ results[k].ret[1].timeslot_id # results[k].ret[2].timeslot_id

\* The run on the shared class-group scenario has returned.
C7_Witness ==
    /\ SharedClassGroupScenario
    /\ pc = "returned"
    /\ Len(results) >= 1
    /\ Len(results[1].ret) = 2

\* No subject at all, the three other collections non-empty.
ZeroSubjectInput ==
    subjects = <<>> /\ teachers # <<>> /\ rooms # <<>> /\ timeslots # <<>>

\* C8 as claimed: with zero subjects and the other collections non-empty,
\* generation succeeds: the request is answered without an error, with
\* empty assignments.
C8_ZeroSubjectsSucceed ==
    (ZeroSubjectInput /\ hpc = "done") =>
        /\ response.status = 200
        /\ schedule = <<>>

\* C8 as it holds: with zero subjects and the other collections non-empty,
\* the request does not succeed: it is answered with HTTP 400 "Please add
\* teachers, ..." without the generator being built, and no assignment is
\* produced or stored.
C8_ZeroSubjects ==
    ZeroSubjectInput =>
        /\ pc = "idle"
        /\ schedule = <<>>
        /\ results = <<>>
        /\ StoredByRequest = {}
        /\ hpc = "done" =>
              response = BadRequest("Please add teachers, subjects, rooms, and timeslots first")

\* A zero-subject request has been answered with HTTP 400.
C8_Witness ==
    /\ ZeroSubjectInput
    /\ hpc = "done"
    /\ response.status = 400

\* Subjects are supplied, none of them has a session, and the three other
\* collections are non-empty.
ZeroSessionInput ==
    /\ subjects # <<>>
    /\ \A i \in DOMAIN subjects : subjects[i].sessions_per_week = 0
    /\ teachers # <<>>
    /\ rooms # <<>>
    /\ timeslots # <<>>

\* C9 as claimed: when every subject has zero sessions, the generation run
\* succeeds with an empty assignment list: the request is answered without
\* an error.
C9_ZeroSessionsSucceed ==
    (ZeroSessionInput /\ hpc = "done") =>
        /\ response.status = 200
        /\ schedule = <<>>

\* C9 as it holds: when every subject has zero sessions, generate() returns
\* an empty list straight after the expansion (no conflict graph, no queue),
\* and the request is answered with HTTP 400 "Could not generate
\* timetable. ..." and stores nothing.
C9_ZeroSessions ==
    ZeroSessionInput =>
        /\ schedule = <<>>
        /\ requirements = <<>>
        /\ StoredByRequest = {}
        /\ \A k \in DOMAIN results : results[k].ret = <<>>
        /\ pc \in {"idle", "ready", "returned"}
        /\ hpc = "done" =>
              /\ Len(results) = 1
              /\ response = BadRequest("Could not generate timetable. Please ensure you have subjects configured.")

\* A request whose subjects all have zero sessions has run generate() and
\* been answered with HTTP 400.
C9_Witness ==
    /\ ZeroSessionInput
    /\ hpc = "done"
    /\ Len(results) = 1
    /\ response.status = 400

\* C10: no state across invocations.  Every generate() invocation, also a
\* later one on the same generator object, returns the assignment list the
\* first invocation returned, free of double-booking.
C10_NoStateAcrossInvocations ==
    \A k \in DOMAIN results :
        /\ results[k].ret = results[1].ret
        /\ NoDoubleBooking(results[k].ret)

\* The handler state of request r: the running one's is in the variables.
RequestState(r) ==
    IF r = cur
    THEN [hpc |-> hpc, schedule |-> schedule, hk |-> hk, response |-> response,
          fetched |-> fetched]
    ELSE saved[r]

AllRequestsDone == \A r \in Requests : RequestState(r).hpc \in {"done", "none"}

\* C11: serialized store replacement.  When the requests sent at once have
\* all finished, the stored timetable is exactly the list of entries one of
\* them stored (and no more entries than that), and no two stored entries
\* share a teacher, a room or a class-group in one timeslot.
C11_SerializedReplacement ==
    AllRequestsDone =>
        /\ \E r \in Requests :
              /\ RequestState(r).hpc = "done"
              /\ Len(timetable) = Len(RequestState(r).schedule)
              /\ Range(timetable) = Range(RequestState(r).schedule)
        /\ NoDoubleBooking(timetable)

\* Some (timeslot, room) pair is free for the requirement being processed
\* in the teacher's, the room's and the class-group's calendar.
FreePairExists ==
    \E t \in DOMAIN self_timeslots, r \in DOMAIN self_rooms :
        CandidateFree(Req, self_rooms[r].id, self_timeslots[t].id)

\* C12: partial placement does not abort.  A requirement's turn ends without
\* an assignment exactly when no (timeslot, room) pair was free in all three
\* calendars at its turn; its turn leaves the requirements still queued in
\* the queue, and generate() returns only when the queue is empty; a request
\* whose run placed at least one requirement is answered with HTTP 200 and
\* the number of placed requirements.
C12_PartialPlacement ==
    [][/\ (pc = "scan" /\ pc' = "pop") =>
            /\ (schedule' = schedule) <=> ~FreePairExists
            /\ priority_queue' = priority_queue
       /\ (pc = "pop" /\ pc' = "returned") => priority_queue = {}
       /\ (hpc # "done" /\ hpc' = "done" /\ results # <<>> /\ results[1].ret # <<>>) =>
            /\ response'.status = 200
            /\ response'.entries = Len(results[1].ret)
      ]_vars

\* A request answered with HTTP 200 whose run left a requirement unplaced
\* and placed the requirement it processed last.
C12_Witness ==
    /\ hpc = "done"
    /\ response.status = 200
    /\ priority_queue = {}
    /\ assigned
    /\ Len(schedule) < Len(requirements)

\* C13: store replacement on success.  When a request served alone has been
\* answered with HTTP 200, the stored timetable holds one entry per
\* assignment generate() returned, in the same order and with the same
\* fields, each under an id no other stored entry and no earlier entry has;
\* nothing of the earlier timetable is left; and the 'entries' field of the
\* answer is the number of assignments returned.
C13_StoreReplacement ==
    (hpc = "done" /\ response.status = 200) =>
        /\ Len(results) = 1
        /\ Len(timetable) = Len(results[1].ret)
        /\ \A k \in DOMAIN timetable :
              timetable[k] = WithId(results[1].ret[k], timetable[k].id)
        /\ \A j, k \in DOMAIN timetable : j # k => timetable[j].id # timetable[k].id
        /\ \A k \in DOMAIN timetable : timetable[k].id # OldEntry.id
        /\ OldEntry \notin Range(timetable)
        /\ response.entries = Len(results[1].ret)

\* A request answered with HTTP 200 after storing three entries or more,
\* two of them in the same timeslot.
C13_Witness ==
    /\ hpc = "done"
    /\ response.status = 200
    /\ Len(timetable) >= 3
    /\ \E j, k \in DOMAIN timetable : j # k /\ timetable[j].timeslot_id = timetable[k].timeslot_id

\* C20: the clear comes before the validation.  A request served alone and
\* answered with HTTP 400, because a collection is empty or because the run
\* placed nothing, leaves the stored timetable empty, whatever was stored
\* before; and the timetable is already empty when the collections are
\* fetched and checked.
C20_ClearBeforeValidation ==
    /\ hpc \in {"find_teachers", "find_subjects", "find_rooms", "find_timeslots",
                 "check", "generate"} => timetable = <<>>
    /\ (hpc = "done" /\ response.status = 400) => timetable = <<>>

\* A request answered with HTTP 400 because its run placed nothing: all
\* four collections are non-empty and the stored timetable is empty.
C20_Witness ==
    /\ hpc = "done"
    /\ response.status = 400
    /\ ~SomeCollectionEmpty
    /\ Len(results) = 1
    /\ timetable = <<>>

\* (timeslot t1, room r1) comes before (timeslot t2, room r2) in the order
\* of the loops: timeslots outermost, rooms inside.
EarlierPair(t1, r1, t2, r2) == t1 < t2 \/ (t1 = t2 /\ r1 < r2)

\* C14: first fit.  Whenever an assignment is appended, its (timeslot, room)
\* pair was free for the requirement in all three calendars, and no pair
\* that comes earlier in the order of the supplied timeslots (outer) and
\* rooms (inner) was.
C14_FirstFit ==
    [][(pc = "scan" /\ schedule' # schedule) =>
         LET a == schedule'[Len(schedule')] IN
         \E t \in DOMAIN self_timeslots, r \in DOMAIN self_rooms :
            /\ self_timeslots[t].id = a.timeslot_id
            /\ self_rooms[r].id = a.room_id
            /\ CandidateFree(Req, a.room_id, a.timeslot_id)
            /\ \A t0 \in DOMAIN self_timeslots, r0 \in DOMAIN self_rooms :
                  EarlierPair(t0, r0, t, r) =>
                      ~CandidateFree(Req, self_rooms[r0].id, self_timeslots[t0].id)
      ]_vars

\* A third requirement has just been placed in the second room of the first
\* timeslot, whose first room was taken.
C14_Witness ==
    /\ pc = "pop"
    /\ assigned
    /\ Len(schedule) >= 3
    /\ Len(self_rooms) >= 2
    /\ schedule[Len(schedule)].timeslot_id = self_timeslots[1].id
    /\ schedule[Len(schedule)].room_id = self_rooms[2].id

\* The number of other requirements that share requirement i's teacher or
\* class-group.
ConflictCount(i) ==
    Cardinality({j \in DOMAIN requirements :
                    /\ j # i
                    /\ \/ requirements[j].teacher_id = requirements[i].teacher_id
                       \/ requirements[j].class_group = requirements[i].class_group})

\* Requirement i is to be processed before requirement j.
Before(i, j) ==
    \/ ConflictCount(i) > ConflictCount(j)
    \/ ConflictCount(i) = ConflictCount(j) /\ i < j

\* The first requirement expanded from the subject of assignment a.
FirstOf(a) ==
    CHOOSE n \in DOMAIN requirements :
        /\ requirements[n].subject_id = a.subject_id
        /\ \A m \in 1..(n - 1) : requirements[m].subject_id # a.subject_id

\* The assignments are listed in processing order.
ScheduleInPriorityOrder ==
    \A i, j \in DOMAIN schedule :
        i < j => \/ schedule[i].subject_id = schedule[j].subject_id
                 \/ Before(FirstOf(schedule[i]), FirstOf(schedule[j]))

\* C15: priority order.  The queue is filled with every requirement; each
\* pop takes the requirement that has the most conflicts among those still
\* queued, the one expanded first among equals; and the assignments of the
\* schedule, hence of the returned list, are in that order.
C15_PriorityOrder ==
    [][/\ (pc = "queue" /\ pc' = "pop") =>
            {item[2] : item \in priority_queue'} = DOMAIN requirements
       /\ (pc = "pop" /\ pc' = "scan") =>
            /\ \E item \in priority_queue :
                  item[2] = idx' /\ priority_queue' = priority_queue \ {item}
            /\ \A item \in priority_queue' : Before(idx', item[2])
       /\ ScheduleInPriorityOrder'
      ]_vars

\* A run has returned with every requirement placed, the first assignment
\* being for a subject that is not the first one expanded.
C15_Witness ==
    /\ pc = "returned"
    /\ Len(schedule) = Len(requirements)
    /\ Len(schedule) >= 3
    /\ schedule[1].subject_id # requirements[1].subject_id

\* The number of times j is listed in the list xs.
Occurrences(xs, j) == Cardinality({n \in DOMAIN xs : xs[n] = j})

\* C16: conflict graph.  Once the graph is built, index j is listed among
\* the conflicts of index i exactly when i and j are different requirements
\* with the same teacher_id or the same class_group, whatever their
\* subjects; it is then listed once, and i is listed among the conflicts of
\* j; no index is listed among its own conflicts; the length of i's list is
\* the number of requirements that conflict with i.
C16_ConflictGraph ==
    (pc \in {"queue", "pop", "scan"}) =>
        /\ \A i, j \in DOMAIN requirements :
              LET same == \/ requirements[i].teacher_id = requirements[j].teacher_id
                          \/ requirements[i].class_group = requirements[j].class_group
              IN  /\ Occurrences(conflicts[i], j) = IF i # j /\ same THEN 1 ELSE 0
                  /\ Occurrences(conflicts[i], j) = Occurrences(conflicts[j], i)
        /\ \A i \in DOMAIN requirements :
              /\ Range(conflicts[i]) \subseteq DOMAIN requirements
              /\ Len(conflicts[i]) = ConflictCount(i)

\* A graph has been built for three requirements: two of one subject, which
\* conflict, and one of another subject and teacher that shares the
\* class-group with them.
C16_Witness ==
    /\ pc = "queue"
    /\ Len(requirements) = 3
    /\ requirements[1].subject_id = requirements[2].subject_id
    /\ requirements[3].teacher_id # requirements[1].teacher_id
    /\ requirements[3].class_group = requirements[1].class_group
    /\ conflicts[3] = <<1, 2>>

\* The timeslots of the assignments of the schedule whose field f is key.
SlotsOf(f, key) ==
    {schedule[k].timeslot_id : k \in {n \in DOMAIN schedule : schedule[n][f] = key}}

\* Each calendar holds, for each resource, exactly the timeslots of the
\* assignments emitted for it.
CalendarsMatchSchedule ==
    /\ \A t \in DOMAIN teacher_schedule : teacher_schedule[t] = SlotsOf("teacher_id", t)
    /\ \A r \in DOMAIN room_schedule : room_schedule[r] = SlotsOf("room_id", r)
    /\ \A g \in DOMAIN class_schedule : class_schedule[g] = SlotsOf("class_group", g)

\* calendar with timeslot slot added for key, and nothing else changed.
WithSlot(calendar, key, slot) ==
    [k \in DOMAIN calendar |-> IF k = key THEN calendar[k] \cup {slot} ELSE calendar[k]]

\* C17: atomic check-and-commit.  A candidate that fails a check leaves the
\* three calendars and the schedule as they were; a candidate that passes
\* all three adds its timeslot to the teacher's, the room's and the
\* class-group's calendar and appends one assignment, with the requirement's
\* subject, teacher and class-group and the candidate's room and timeslot;
\* and while requirements are processed, and when the run has returned, each
\* calendar holds exactly the timeslots of the assignments emitted so far
\* for the resource.
C17_AtomicCommit ==
    [][/\ (AtCandidate /\ ~CandidateFree(Req, RoomId, SlotKey)) =>
            /\ <<teacher_schedule, room_schedule, class_schedule>>' =
                   <<teacher_schedule, room_schedule, class_schedule>>
            /\ schedule' = schedule
       /\ (AtCandidate /\ CandidateFree(Req, RoomId, SlotKey)) =>
            /\ teacher_schedule' = WithSlot(teacher_schedule, Req.teacher_id, SlotKey)
            /\ room_schedule' = WithSlot(room_schedule, RoomId, SlotKey)
            /\ class_schedule' = WithSlot(class_schedule, Req.class_group, SlotKey)
            /\ schedule' = schedule \o
                   << [subject_id |-> Req.subject_id, teacher_id |-> Req.teacher_id,
                       room_id |-> RoomId, timeslot_id |-> SlotKey,
                       class_group |-> Req.class_group] >>
       /\ (pc' \in {"pop", "scan"} \/ (pc' = "returned" /\ requirements' # <<>>)) =>
            CalendarsMatchSchedule'
      ]_vars

\* A candidate has just been rejected on the room check alone: the teacher
\* and the class-group were free in its timeslot, which the room was not.
C17_Witness ==
    /\ AtCandidate
    /\ ri >= 2
    /\ ~TeacherBusy(Req, SlotKey)
    /\ ~ClassBusy(Req, SlotKey)
    /\ RoomBusy(self_rooms[ri - 1].id, SlotKey)
    /\ teacher_schedule[Req.teacher_id] = {}

\* generate() has expanded the requirements of the supplied subjects.
Expanded == pc \in {"graph", "queue", "pop", "scan", "returned"}

\* The requirement of session k of subject record subject.
SessionRequirement(subject, k) ==
    [subject_id |-> subject.id, teacher_id |-> subject.teacher_id,
     class_group |-> subject.class_group, session_num |-> k]

\* The requirements are those of the subject list subs: one per subject and
\* session number, in list order and then by ascending session number.
OnePerSession(subs) ==
    /\ Len(requirements) = TotalSessions(subs)
    /\ \A i \in DOMAIN subs :
          \A k \in 1..subs[i].sessions_per_week :
              requirements[TotalSessions(SubSeq(subs, 1, i - 1)) + k] =
                  SessionRequirement(subs[i], k)

\* The statement of C18 as made, for every supplied subject list.
C18_ExpansionOfEveryList == Expanded => OnePerSession(subjects)

\* Record i is the last record of the supplied list that has its id.
LastOfItsId(i) == \A j \in DOMAIN subjects : j > i => subjects[j].id # subjects[i].id

\* C18: requirement expansion.  For a supplied subject list whose ids are
\* pairwise distinct, generate() creates one requirement per subject and
\* session number k in 1..sessions_per_week, in list order and then by
\* ascending k, with the subject's teacher_id and class_group, and none for a
\* subject of 0 sessions.  Records that share an id count as one subject,
\* the last of them: it has exactly one requirement per session number, a
\* record followed by another of its id has none of its own, and the ids
\* come in the order of their first records.
C18_RequirementExpansion ==
    Expanded =>
        /\ DistinctIds(subjects) => OnePerSession(subjects)
        /\ \A i \in DOMAIN subjects :
              LastOfItsId(i) =>
                  \A k \in 1..subjects[i].sessions_per_week :
                      Occurrences(requirements, SessionRequirement(subjects[i], k)) = 1
        /\ \A n \in DOMAIN requirements :
              \E i \in DOMAIN subjects :
                  /\ LastOfItsId(i)
                  /\ requirements[n].session_num \in 1..subjects[i].sessions_per_week
                  /\ requirements[n] = SessionRequirement(subjects[i], requirements[n].session_num)
        /\ \A m, n \in DOMAIN requirements :
              m < n =>
                  \/ /\ requirements[m].subject_id = requirements[n].subject_id
                     /\ requirements[m].session_num < requirements[n].session_num
                  \/ \E i, j \in DOMAIN subjects :
                        /\ i < j
                        /\ subjects[i].id = requirements[m].subject_id
                        /\ subjects[j].id = requirements[n].subject_id
                        /\ \A h \in 1..(j - 1) : subjects[h].id # subjects[j].id

\* The requirements of three records have been expanded, of which the first
\* and the third share an id and differ in teacher and sessions: the two
\* sessions of the third record come first, at the place of the first
\* record, then the session of the second record; the first record has no
\* requirement.
C18_Witness ==
    /\ pc = "graph"
    /\ Len(subjects) = 3
    /\ subjects[1].id = subjects[3].id
    /\ subjects[2].id # subjects[1].id
    /\ subjects[1].teacher_id # subjects[3].teacher_id
    /\ subjects[1].sessions_per_week = 0
    /\ subjects[2].sessions_per_week = 1
    /\ subjects[3].sessions_per_week = 2
    /\ requirements = <<SessionRequirement(subjects[3], 1),
                        SessionRequirement(subjects[3], 2),
                        SessionRequirement(subjects[2], 1)>>
    /\ requirements[3].subject_id = subjects[2].id

\* Some assignment places every requirement without conflict: the
\* requirements can be split over the supplied timeslots so that no two of
\* one timeslot share a teacher or a class-group and no timeslot gets more
\* requirements than there are rooms.
CompleteAssignmentExists ==
    \E f \in [DOMAIN requirements -> DOMAIN self_timeslots] :
        /\ \A i, j \in DOMAIN requirements :
              (i # j /\ f[i] = f[j]) =>
                  /\ requirements[i].teacher_id # requirements[j].teacher_id
                  /\ requirements[i].class_group # requirements[j].class_group
        /\ \A t \in DOMAIN self_timeslots :
              Cardinality({i \in DOMAIN requirements : f[i] = t}) <= Len(self_rooms)

\* C19: best-effort greedy without backtracking.  During a run every step
\* leaves the assignments emitted so far in the schedule as they are, in
\* their places, and adds at most one after them; and the list returned is
\* the schedule so built.  (That the algorithm is not complete is the
\* reachability of C19_Witness.)
C19_NoBacktracking ==
    [][/\ pc \in {"ready", "graph", "queue", "pop", "scan"} =>
            /\ Len(schedule') \in {Len(schedule), Len(schedule) + 1}
            /\ \A k \in DOMAIN schedule : schedule'[k] = schedule[k]
       /\ (pc = "pop" /\ pc' = "returned") =>
            results'[Len(results')].ret = schedule
      ]_vars

\* A run on 6 single-session subjects of 3 teachers and 4 class-groups, with
\* 2 timeslots and 3 rooms, has returned with a requirement unplaced,
\* although some assignment places all six without conflict.
C19_Witness ==
    /\ pc = "returned"
    /\ Len(requirements) = 6
    /\ Len(self_timeslots) = 2
    /\ Len(self_rooms) = 3
    /\ Len(schedule) < Len(requirements)
    /\ CompleteAssignmentExists

====
